---- MODULE Spec2Model ----
(***************************************************************************)
(* A model of tisch (src/tisch.js, the module at lines 304-907): schemas   *)
(* are compiled into validator closures that share one array of error      *)
(* diagnostics; the root validator is wrapped so that the array is cleared  *)
(* on every top-level call.                                                 *)
(*                                                                          *)
(* JavaScript values are records tagged by t; strings and property keys    *)
(* are sequences of one-character strings.  A schema is the value the       *)
(* evaluated schema text yields, tagged by k.  A compiled validator (a      *)
(* closure in the source) is a record tagged by m holding what the closure  *)
(* captured; Run invokes it.                                                *)
(***************************************************************************)
EXTENDS Integers, Sequences, FiniteSets

\* ------------------------------------------------------------ bounds
\* The number of top-level calls (validate or enforce) made on one
\* compiled validator.
MaxCalls == 2
\* The longest candidate array built from ElementValues.
MaxArrayLen == 2
\* The number of compileFile calls under way up to which a recursion
\* among units is followed.
MaxDepth == 5

\* ------------------------------------------------------ JS primitives
\* `undefined` as a quantifier argument (etc() called with no argument).
Undefined == -1
\* `Infinity`, the default of max; larger than any length in the model.
Infinity == 1000

Null == [t |-> "null"]
Bool(b) == [t |-> "boolean", v |-> b]
Num(n) == [t |-> "number", v |-> n]
Str(s) == [t |-> "string", v |-> s]
Arr(s) == [t |-> "array", v |-> s]
\* A plain object: its own enumerable entries <<key, value>>, in order.
Obj(entries) == [t |-> "object", v |-> entries]

\* Property names used by the schemas and candidates of the model.
KeyA == <<"a">>
KeyB == <<"b">>
KeyC == <<"c">>
KeyBOpt == <<"b", "?">>
KeyPlus == <<"+">>
KeyContrived == <<"c", "o", "n", "t", "r", "i", "v", "e", "d">>
\* A name that every object literal inherits from Object.prototype.
KeyToString == <<"t", "o", "S", "t", "r", "i", "n", "g">>

\* The names an object literal inherits (one of them is enough here).
ObjectPrototypeKeys == {KeyToString}

\* `typeof value`
TypeOf(value) ==
    CASE value.t = "boolean" -> "boolean"
      [] value.t = "number" -> "number"
      [] value.t = "string" -> "string"
      [] value.t = "function" -> "function"
      [] OTHER -> "object"

\* `value === expected` for the primitives a literal pattern can hold.
StrictEquals(value, expected) ==
    /\ value.t = expected.t
    /\ value.t # "null" => value.v = expected.v

\* isObject: Object.prototype.toString.call(value) === '[object Object]'
isObject(value) == value.t = "object"

\* Array.isArray
IsArrayValue(value) == value.t = "array"

\* A getProto that goes by typeof: an array counts as an object.
getProtoByTypeof(value) ==
    CASE value.t = "null" -> "undefined"
      [] value.t = "boolean" -> "Boolean.prototype"
      [] value.t = "number" -> "Number.prototype"
      [] value.t = "string" -> "String.prototype"
      [] value.t = "array" -> "Object.prototype"
      [] value.t = "object" -> "Object.prototype"
      [] value.t = "function" -> "Function.prototype"

\* getProto: null has no prototype; otherwise the prototype of the value.
getProto(value) ==
    CASE value.t = "null" -> "undefined"
      [] value.t = "boolean" -> "Boolean.prototype"
      [] value.t = "number" -> "Number.prototype"
      [] value.t = "string" -> "String.prototype"
      [] value.t = "array" -> "Array.prototype"
      [] value.t = "object" -> "Object.prototype"
      [] value.t = "function" -> "Function.prototype"

\* type(): the default instance the factory function makes.
DefaultInstance(name) ==
    CASE name = "Number" -> Num(0)
      [] name = "Boolean" -> Bool(FALSE)
      [] name = "String" -> Str(<<>>)
      [] name = "Array" -> Arr(<<>>)
      [] name = "Object" -> Obj(<<>>)

\* Object.values(x): own enumerable property values.  A string has one
\* property per character, an array one per element, a number or a
\* boolean none.  (null throws; the callers test for it.)
ObjectValues(value) ==
    CASE value.t = "array" -> value.v
      [] value.t = "object" -> [i \in 1..Len(value.v) |-> value.v[i][2]]
      [] value.t = "string" -> [i \in 1..Len(value.v) |-> Str(<<value.v[i]>>)]
      [] OTHER -> <<>>

\* Object.keys(x).length
ObjectKeysLength(value) == Len(ObjectValues(value))

\* The own keys of a plain object.
OwnKeys(object) == {object.v[i][1] : i \in 1..Len(object.v)}

\* object[key] when `key in object`: the own value, else the inherited
\* method.
Get(object, key) ==
    IF key \in OwnKeys(object)
    THEN LET i == CHOOSE j \in 1..Len(object.v) : object.v[j][1] = key
         IN  object.v[i][2]
    ELSE [t |-> "function"]

\* `key in object` for a plain object: own or inherited.
In(key, object) == key \in OwnKeys(object) \/ key \in ObjectPrototypeKeys

\* ------------------------------------------------------------ schemas
\* Number, Boolean, Object, Array, String: the factory functions.
TypeTag(name) == [k |-> "type", name |-> name]
\* A string, number, boolean or null literal.
Lit(v) == [k |-> "literal", v |-> v]
\* An array literal of patterns.
ArrS(elements) == [k |-> "array", elements |-> elements]
\* `...etc` and `...etc(min, max)` spread into an array literal both yield
\* an object etc() made, holding {min, max} under etcSymbol (for the bare
\* `...etc` the object defaultEtc); `called` is history: whether the
\* marker was written with arguments.
EtcBare == [k |-> "etc", called |-> FALSE, min |-> Undefined, max |-> Undefined]
EtcCall(min, max) == [k |-> "etc", called |-> TRUE, min |-> min, max |-> max]
\* The {min, max} that `...etc` spread into an object literal leaves under
\* etcSymbol.
Occurrence(min, max) == [min |-> min, max |-> max]
\* An object literal: its string-keyed entries <<key, pattern>> in order,
\* the value under etcSymbol (<<>> when absent) and the value under
\* anySymbol (<<>> when absent).
ObjS(entries, etcProp, anyProp) ==
    [k |-> "object", entries |-> entries, etc |-> etcProp, any |-> anyProp]
\* or(...patterns): an object holding the patterns under orSymbol.
Or(patterns) == [k |-> "or", patterns |-> patterns]
\* Any is or().
Any == Or(<<>>)
\* A dependency handed to a `define` callback: an already compiled
\* validator function standing where a pattern is expected.
Compiled(validator) == [k |-> "function", validator |-> validator]
\* A value that is no pattern (undefined, a symbol, a Date, ...).
Invalid == [k |-> "invalid"]
\* The argument `self` of the function given to recursive, used as a
\* pattern: a placeholder for the pattern the function returns.
Self == [k |-> "self"]
\* recursive(self => body): the pattern the function returns, which may
\* hold Self anywhere inside.
Recursive(body) == [k |-> "recursive", body |-> body]
\* A property read on `self` (self.yin, or `yin` destructured from the
\* argument), used as a pattern: the placeholder of that name.
Member(name) == [k |-> "member", name |-> name]
\* const {root} = recursive(self => ({name: pattern, ...})): the entries
\* <<name, pattern>> of the object the function returns, and the name of
\* the member that is used as the schema.
Group(defs, root) == [k |-> "group", defs |-> defs, root |-> root]

\* ----------------------------------------------------------- compiling
\* A thrown Error, at compile time or at match time.
Throw(error) == [m |-> "throw", error |-> error]
Thrown(validator) == validator.m = "throw"

\* The first thrown element of a sequence of compiled sub-patterns.
FirstThrown(validators) ==
    validators[CHOOSE i \in 1..Len(validators) :
                 /\ Thrown(validators[i])
                 /\ \A j \in 1..(i - 1) : ~Thrown(validators[j])]

\* isEtc: pattern !== null && pattern[etcSymbol]
isEtc(pattern) ==
    \/ pattern.k = "etc"
    \/ pattern.k = "object" /\ pattern.etc # <<>>

\* The {min, max} found under etcSymbol of a pattern for which isEtc holds.
EtcOf(pattern) ==
    IF pattern.k = "etc" THEN Occurrence(pattern.min, pattern.max)
    ELSE pattern.etc[1]

\* The destructuring default {min=0, max=Infinity}.
DefaultMin(occurence) == IF occurence.min = Undefined THEN 0 ELSE occurence.min
DefaultMax(occurence) ==
    IF occurence.max = Undefined THEN Infinity ELSE occurence.max

\* key.endsWith('?')
EndsWithQuestionMark(key) == Len(key) > 0 /\ key[Len(key)] = "?"
\* key.slice(0, -1)
DropLast(key) == SubSeq(key, 1, Len(key) - 1)

\* The entries of a sequence that satisfy a test, in order.
RECURSIVE SelectEntries(_, _)
SelectEntries(entries, optionalOnes) ==
    IF entries = <<>> THEN <<>>
    ELSE LET e == entries[1]
             rest == SelectEntries(Tail(entries), optionalOnes)
         IN  IF EndsWithQuestionMark(e[1]) = optionalOnes
             THEN <<e>> \o rest
             ELSE rest

KeyLength == <<"l", "e", "n", "g", "t", "h">>

\* The truthiness of a pattern: the literals null, false, 0 and "" are
\* falsy, every other pattern is an object or a function.
Truthy(p) ==
    ~(/\ p.k = "literal"
      /\ \/ p.v.t = "null"
         \/ p.v.t = "boolean" /\ p.v.v = FALSE
         \/ p.v.t = "number" /\ p.v.v = 0
         \/ p.v.t = "string" /\ p.v.v = <<>>)

\* The truthiness of schema.length: the pattern stored under the string
\* key "length", if the object literal has one.
SchemaLengthTruthy(schema) ==
    \E i \in 1..Len(schema.entries) :
        /\ schema.entries[i][1] = KeyLength
        /\ Truthy(schema.entries[i][2])

RECURSIVE validatorImpl(_)
RECURSIVE fixedArrayValidator(_)
RECURSIVE objectValidator(_)

\* The placeholder as a matcher: it holds the number of its binding cell,
\* never a matcher, since it is compiled before the cell is bound.
placeholderValidator(cell) == [m |-> "placeholder", cell |-> cell]

\* recursive: one placeholder (cell 1) is made, the definition is
\* compiled with it, and the cell is then bound to the matcher that came
\* out; `cells` is the cells as the binding left them.
recursiveValidator(schema) ==
    LET body == validatorImpl(schema.body)
    IN  IF Thrown(body) THEN body
        ELSE [m |-> "recursive", cells |-> <<body>>, root |-> 1]

\* The patterns directly inside a pattern.
Children(pattern) ==
    CASE pattern.k = "array" -> pattern.elements
      [] pattern.k = "or" -> pattern.patterns
      [] pattern.k = "object" ->
            [i \in 1..Len(pattern.entries) |-> pattern.entries[i][2]]
                \o pattern.any
      [] pattern.k = "recursive" -> <<pattern.body>>
      [] OTHER -> <<>>

\* The names of the placeholders a pattern holds: those minted by a
\* property read on `self` while the definitions were built.
RECURSIVE Minted(_)
Minted(pattern) ==
    (IF pattern.k = "member" THEN {pattern.name} ELSE {})
        \cup UNION {Minted(Children(pattern)[i]) :
                        i \in 1..Len(Children(pattern))}

\* The names the function given to recursive returns definitions for.
Names(defs) == {defs[i][1] : i \in 1..Len(defs)}
\* The definition under a name.
Definition(defs, name) ==
    defs[CHOOSE i \in 1..Len(defs) : defs[i][1] = name][2]

\* A resolver that binds only the member the caller took out of the
\* group, leaving the cells of the other members unbound.
groupValidatorRootOnly(schema) ==
    LET compiled == [i \in 1..Len(schema.defs) |-> validatorImpl(schema.defs[i][2])]
    IN  IF \E i \in 1..Len(schema.defs) : ~(Minted(schema.defs[i][2]) \subseteq Names(schema.defs))
        THEN Throw("unresolved placeholder")
        ELSE IF \E i \in 1..Len(compiled) : Thrown(compiled[i])
        THEN FirstThrown(compiled)
        ELSE [m |-> "recursive",
              cells |-> [n \in {schema.root} |->
                            validatorImpl(Definition(schema.defs, n))],
              root |-> schema.root,
              minted |-> UNION {Minted(schema.defs[i][2]) : i \in 1..Len(schema.defs)}]

\* recursive with members: one placeholder (a cell) per name; every
\* definition is compiled and its cell bound, reachable from the member
\* taken as the schema or not; a placeholder that no definition is
\* returned for cannot be bound, and the compile fails.  `minted` is
\* history: the names of the placeholders made.
groupValidator(schema) ==
    LET compiled == [i \in 1..Len(schema.defs) |-> validatorImpl(schema.defs[i][2])]
    IN  IF \E i \in 1..Len(schema.defs) : ~(Minted(schema.defs[i][2]) \subseteq Names(schema.defs))
        THEN Throw("unresolved placeholder")
        ELSE IF \E i \in 1..Len(compiled) : Thrown(compiled[i])
        THEN FirstThrown(compiled)
        ELSE [m |-> "recursive",
              cells |-> [n \in Names(schema.defs) |->
                            validatorImpl(Definition(schema.defs, n))],
              root |-> schema.root,
              minted |-> UNION {Minted(schema.defs[i][2]) : i \in 1..Len(schema.defs)}]

typeValidator(type) ==
    [m |-> "type", name |-> type.name,
     proto |-> getProto(DefaultInstance(type.name))]

literalValidator(expected) == [m |-> "literal", expected |-> expected]

fixedArrayValidator(patterns) ==
    IF \E i \in 1..Len(patterns) : patterns[i].k = "invalid" \/ isEtc(patterns[i])
    THEN Throw("etc cannot appear in an array except at the end")
    ELSE LET validators == [i \in 1..Len(patterns) |-> validatorImpl(patterns[i])]
         IN  IF \E i \in 1..Len(validators) : Thrown(validators[i])
             THEN FirstThrown(validators)
             ELSE [m |-> "fixedArray", validators |-> validators]

dynamicArrayValidator(fixed, repeatable, occurence) ==
    LET fixedValidator == fixedArrayValidator(fixed)
        repeatableValidator == validatorImpl(repeatable)
    IN  IF Thrown(fixedValidator) THEN fixedValidator
        ELSE IF Thrown(repeatableValidator) THEN repeatableValidator
        ELSE [m |-> "dynamicArray",
              fixedValidator |-> fixedValidator,
              fixedLength |-> Len(fixed),
              repeatableValidator |-> repeatableValidator,
              min |-> DefaultMin(occurence),
              max |-> DefaultMax(occurence)]

arrayValidator(elements) ==
    IF Len(elements) < 2 THEN fixedArrayValidator(elements)
    ELSE LET last == elements[Len(elements)]
         IN  IF last.k = "invalid" THEN Throw("TypeError")
             ELSE IF ~isEtc(last) THEN fixedArrayValidator(elements)
             ELSE dynamicArrayValidator(SubSeq(elements, 1, Len(elements) - 2),
                                        elements[Len(elements) - 1],
                                        EtcOf(last))

\* An orValidator without the case for an empty list of patterns.
orValidatorNoEmptyCase(patterns) ==
    LET validators == [i \in 1..Len(patterns) |-> validatorImpl(patterns[i])]
    IN  IF \E i \in 1..Len(validators) : Thrown(validators[i])
        THEN FirstThrown(validators)
        ELSE [m |-> "or", validators |-> validators]

orValidator(patterns) ==
    LET validators == [i \in 1..Len(patterns) |-> validatorImpl(patterns[i])]
    IN  IF \E i \in 1..Len(validators) : Thrown(validators[i])
        THEN FirstThrown(validators)
        ELSE IF Len(validators) = 0 THEN [m |-> "true"]
        ELSE [m |-> "or", validators |-> validators]

wildcardObjectValidator(schema) ==
    LET validate == validatorImpl(schema.any[1])
    IN  IF Thrown(validate) THEN validate
        ELSE IF SchemaLengthTruthy(schema)
        THEN Throw("An object pattern with an Any property must have only that property")
        ELSE [m |-> "wildcard", validate |-> validate, etc |-> schema.etc]

objectValidator(schema) ==
    LET occurence == IF schema.etc # <<>> THEN schema.etc[1] ELSE Occurrence(0, 0)
        compiled == [i \in 1..Len(schema.entries) |->
                        <<schema.entries[i][1], validatorImpl(schema.entries[i][2])>>]
        optional == SelectEntries(compiled, TRUE)
    IN  IF \E i \in 1..Len(compiled) : Thrown(compiled[i][2])
        THEN FirstThrown([i \in 1..Len(compiled) |-> compiled[i][2]])
        ELSE [m |-> "object",
              required |-> SelectEntries(compiled, FALSE),
              optional |-> [i \in 1..Len(optional) |->
                               <<DropLast(optional[i][1]), optional[i][2]>>],
              min |-> DefaultMin(occurence),
              max |-> DefaultMax(occurence)]

validatorImpl(schema) ==
    CASE schema.k = "type" -> typeValidator(schema)
      [] schema.k = "function" -> schema.validator
      [] schema.k = "literal" -> literalValidator(schema.v)
      [] schema.k = "array" -> arrayValidator(schema.elements)
      [] schema.k = "invalid" -> Throw("Invalid schema subpattern")
      [] schema.k = "or" -> orValidator(schema.patterns)
      [] schema.k = "object" /\ schema.any # <<>> /\ Truthy(schema.any[1]) ->
            wildcardObjectValidator(schema)
      [] schema.k = "object" /\ ~(schema.any # <<>> /\ Truthy(schema.any[1])) ->
            objectValidator(schema)
      [] schema.k = "etc" ->
            objectValidator(ObjS(<<>>, <<Occurrence(schema.min, schema.max)>>, <<>>))
      [] schema.k = "self" -> placeholderValidator(1)
      [] schema.k = "recursive" -> recursiveValidator(schema)
      [] schema.k = "member" -> placeholderValidator(schema.name)
      [] schema.k = "group" -> groupValidator(schema)

\* ------------------------------------------------------------ matching
\* What a validator call works on: `log` is the shared errors array,
\* `cells` the binding cells of the recursive pattern being matched.
\* `trace` (the validator calls that have returned or thrown so far, in
\* that order: where the validator sits, what made it, what it gave) and
\* `call` (the number of the top-level call under way, stamped on every
\* diagnostic pushed) are history, not program state.
\* A diagnostic: `code` names the message template, `with` the values
\* interpolated into it; `path` (the validator that pushed it), `stamp`
\* and `nr` (how many pushes the call had made, this one included) are
\* history, and so is the count of pushes kept in the match state.
Push(st, code, path, with) ==
    [st EXCEPT !.log = Append(@, [code |-> code, path |-> path,
                                  stamp |-> st.call, nr |-> st.count + 1,
                                  with |-> with]),
               !.count = @ + 1]

\* The outcome of a validator call: res is "true", "false" or "throw".
Ret(res, st) == [res |-> res, st |-> st]

Min2(a, b) == IF a < b THEN a ELSE b

\* `if (!matched) { errors.push(...) }` after a nested call: a thrown
\* exception passes through untouched.
PushIfFalse(r, code, path, with) ==
    IF r.res = "false" THEN Ret("false", Push(r.st, code, path, with)) ELSE r

RECURSIVE Run(_, _, _, _)
RECURSIVE EveryElement(_, _, _, _, _)
RECURSIVE EveryValue(_, _, _, _, _)
RECURSIVE Some(_, _, _, _, _)
RECURSIVE EveryRequired(_, _, _, _, _)
RECURSIVE EveryEntry(_, _, _, _, _)

\* A type validator that empties the array before it reports.
typeValidatorCallClearing(m, value, path, st) ==
    IF getProto(value) = m.proto THEN Ret("true", st)
    ELSE Ret("false", Push([st EXCEPT !.log = <<>>],
                           "expected value of type", path,
                           <<m.name, TypeOf(value), value>>))

\* The closure typeValidator returns.
typeValidatorCall(m, value, path, st) ==
    IF getProto(value) = m.proto THEN Ret("true", st)
    ELSE Ret("false", Push(st, "expected value of type", path,
                           <<m.name, TypeOf(value), value>>))

\* The closure literalValidator returns.
literalValidatorCall(m, value, path, st) ==
    IF StrictEquals(value, m.expected) THEN Ret("true", st)
    ELSE Ret("false", Push(st, "expected literal", path, <<m.expected, value>>))

checkIsArray(value, path, st) ==
    IF IsArrayValue(value) THEN Ret("true", st)
    ELSE Ret("false", Push(st, "expected an array", path, <<TypeOf(value), value>>))

\* validators.every((validate, i) => validate(value[i])) from index i on,
\* r being the outcome so far: every stops at the first result that is
\* not true.
EveryElement(validators, values, i, path, r) ==
    IF r.res # "true" \/ i > Len(validators) THEN r
    ELSE EveryElement(validators, values, i + 1, path,
                      Run(validators[i], values[i], Append(path, i), r.st))

\* A fixedArrayValidator closure that names the array pattern first and
\* lets the diagnostics of the failing element follow.
fixedArrayValidatorCallContextFirst(m, value, path, st) ==
    IF ~IsArrayValue(value)
    THEN Ret("false", Push(checkIsArray(value, path, st).st,
                           "...occurred in array pattern", path, <<>>))
    ELSE IF Len(value.v) # Len(m.validators)
    THEN Ret("false", Push(st, "wrong number of array elements", path,
                           <<Len(m.validators), Len(value.v), value>>))
    ELSE LET r == EveryElement(m.validators, value.v, 1, path, Ret("true", st))
         IN  IF r.res # "false" THEN r
             ELSE Ret("false",
                      [r.st EXCEPT !.log =
                          Push(st, "...occurred in array pattern", path, <<>>).log
                              \o SubSeq(r.st.log, Len(st.log) + 1, Len(r.st.log))])

\* The closure fixedArrayValidator returns.
fixedArrayValidatorCall(m, value, path, st) ==
    IF ~IsArrayValue(value)
    THEN Ret("false", Push(checkIsArray(value, path, st).st,
                           "...occurred in array pattern", path, <<>>))
    ELSE IF Len(value.v) # Len(m.validators)
    THEN Ret("false", Push(st, "wrong number of array elements", path,
                           <<Len(m.validators), Len(value.v), value>>))
    ELSE PushIfFalse(EveryElement(m.validators, value.v, 1, path, Ret("true", st)),
                     "...occurred in array pattern", path, <<>>)

\* values.every(validate) from index i on, r being the outcome so far.
EveryValue(validate, values, i, path, r) ==
    IF r.res # "true" \/ i > Len(values) THEN r
    ELSE EveryValue(validate, values, i + 1, path,
                    Run(validate, values[i], Append(path, 1), r.st))

\* value.slice(0, fixed.length) and value.slice(fixed.length)
FixedPart(m, value) == SubSeq(value.v, 1, Min2(m.fixedLength, Len(value.v)))
RepeatablePart(m, value) == SubSeq(value.v, m.fixedLength + 1, Len(value.v))

\* A dynamicArrayValidator that reports nothing when the number of
\* trailing elements is out of bounds.
dynamicArrayTrailingSilent(m, value, path, f) ==
    IF f.res # "true" THEN f
    ELSE IF \/ Len(RepeatablePart(m, value)) < m.min
            \/ Len(RepeatablePart(m, value)) > m.max
    THEN Ret("false", f.st)
    ELSE PushIfFalse(EveryValue(m.repeatableValidator, RepeatablePart(m, value),
                                1, path, f),
                     "Not every trailing element matched", path,
                     <<RepeatablePart(m, value)>>)

\* The closure dynamicArrayValidator returns, from the call of
\* fixedValidator on: f is what that call gave.
dynamicArrayTrailing(m, value, path, f) ==
    IF f.res # "true" THEN f
    ELSE IF \/ Len(RepeatablePart(m, value)) < m.min
            \/ Len(RepeatablePart(m, value)) > m.max
    THEN Ret("false", Push(f.st, "...etc(min, max) at end of array pattern", path,
                           <<m.min, m.max, Len(RepeatablePart(m, value)),
                             RepeatablePart(m, value)>>))
    ELSE PushIfFalse(EveryValue(m.repeatableValidator, RepeatablePart(m, value),
                                1, path, f),
                     "Not every trailing element matched", path,
                     <<RepeatablePart(m, value)>>)

\* The closure dynamicArrayValidator returns.
dynamicArrayValidatorCall(m, value, path, st) ==
    IF ~IsArrayValue(value)
    THEN Ret("false", Push(checkIsArray(value, path, st).st,
                           "...occurred in array pattern", path, <<>>))
    ELSE dynamicArrayTrailing(m, value, path,
             Run(m.fixedValidator, Arr(FixedPart(m, value)), Append(path, 0), st))

\* validators.some(validate => validate(value)) from index i on, r being
\* the outcome so far: some stops at the first result that is not false.
Some(validators, value, i, path, r) ==
    IF r.res # "false" \/ i > Len(validators) THEN r
    ELSE Some(validators, value, i + 1, path,
              Run(validators[i], value, Append(path, i), r.st))

\* An orValidator that, when an alternative matches, truncates the array
\* to what it held before the union was tried.
orValidatorCallRetracting(m, value, path, st) ==
    LET r == PushIfFalse(Some(m.validators, value, 1, path, Ret("false", st)),
                         "did not match any of the or patterns", path, <<value>>)
    IN  IF r.res = "true" THEN Ret("true", [r.st EXCEPT !.log = st.log]) ELSE r

\* An orValidator that, when no alternative matched, replaces what the
\* alternatives pushed by its summary.
orValidatorCallSummaryOnly(m, value, path, st) ==
    LET r == Some(m.validators, value, 1, path, Ret("false", st))
    IN  IF r.res = "false"
        THEN Ret("false", Push([r.st EXCEPT !.log = st.log],
                               "did not match any of the or patterns", path,
                               <<value>>))
        ELSE r

\* The closure orValidator returns for one or more patterns.
orValidatorCall(m, value, path, st) ==
    PushIfFalse(Some(m.validators, value, 1, path, Ret("false", st)),
                "did not match any of the or patterns", path, <<value>>)

\* schema[etcSymbol] || {min: 1, max: 1}
WildcardOccurrence(m) == IF m.etc # <<>> THEN m.etc[1] ELSE Occurrence(1, 1)

\* The closure wildcardObjectValidator returns.  Object.keys(null) throws
\* a TypeError.
wildcardObjectValidatorCall(m, object, path, st) ==
    IF object.t = "null" THEN Ret("throw", st)
    ELSE IF ObjectKeysLength(object) # 1 /\ m.etc = <<>>
    THEN Ret("false", Push(st, "properties instead of exactly one", path,
                           <<ObjectKeysLength(object), object>>))
    ELSE IF \/ ObjectKeysLength(object) < DefaultMin(WildcardOccurrence(m))
            \/ ObjectKeysLength(object) > DefaultMax(WildcardOccurrence(m))
    THEN Ret("false", Push(st, "properties while between min and max are required",
                           path, <<ObjectKeysLength(object),
                                   DefaultMin(WildcardOccurrence(m)),
                                   DefaultMax(WildcardOccurrence(m))>>))
    ELSE PushIfFalse(EveryValue(m.validate, ObjectValues(object), 1, path,
                                Ret("true", st)),
                     "...occurred in wildcard object pattern", path, <<>>)

\* The keys of a {key: validator} table; `in` also finds inherited names.
TableKeys(table) == {table[i][1] : i \in 1..Len(table)}
InTable(key, table) == key \in TableKeys(table) \/ key \in ObjectPrototypeKeys
TableIndex(key, table) == CHOOSE i \in 1..Len(table) : table[i][1] = key

\* The callback of Object.entries(required).every(...) on entry i.
RequiredField(required, object, i, path, st) ==
    IF ~In(required[i][1], object)
    THEN Ret("false",
             Push(Push(st, "Missing required field", path,
                       <<required[i][1], object>>),
                  "The following fields are required", path,
                  <<[j \in 1..Len(required) |-> required[j][1]]>>))
    ELSE PushIfFalse(Run(required[i][2], Get(object, required[i][1]),
                         Append(path, i), st),
                     "...occurred at required field", path, <<required[i][1]>>)

\* A loop over the required fields that goes on after a failure, as
\* forEach with a flag would.
EveryRequiredNoShortCircuit(required, object, i, path, r) ==
    IF r.res = "throw" \/ i > Len(required) THEN r
    ELSE EveryRequired(required, object, i + 1, path,
                       IF r.res = "false"
                       THEN Ret("false",
                                RequiredField(required, object, i, path, r.st).st)
                       ELSE RequiredField(required, object, i, path, r.st))

\* Object.entries(required).every(...) from entry i on, r being the
\* outcome so far.
EveryRequired(required, object, i, path, r) ==
    IF r.res # "true" \/ i > Len(required) THEN r
    ELSE EveryRequired(required, object, i + 1, path,
                       RequiredField(required, object, i, path, r.st))

\* An outcome together with the number of leftovers counted so far.
WithLeftovers(r, n) == [res |-> r.res, st |-> r.st, leftovers |-> n]

\* optional[key](value): the validator stored under an own key; under an
\* inherited name, a method of Object.prototype, whose result is truthy.
OptionalField(m, key, value, path, st) ==
    IF key \in TableKeys(m.optional)
    THEN PushIfFalse(Run(m.optional[TableIndex(key, m.optional)][2], value,
                         Append(path, Len(m.required) + TableIndex(key, m.optional)),
                         st),
                     "...occurred at optional field", path, <<key>>)
    ELSE Ret("true", st)

\* The callback of Object.entries(object).every(...) on entry i.
EntryStep(m, object, i, path, r) ==
    IF InTable(object.v[i][1], m.optional)
    THEN WithLeftovers(OptionalField(m, object.v[i][1], object.v[i][2], path, r.st),
                       r.leftovers)
    ELSE IF ~InTable(object.v[i][1], m.required)
    THEN WithLeftovers(r, r.leftovers + 1)
    ELSE r

\* Object.entries(object).every(...) from entry i on, r being the outcome
\* so far.
EveryEntry(m, object, i, path, r) ==
    IF r.res # "true" \/ i > Len(object.v) THEN r
    ELSE EveryEntry(m, object, i + 1, path, EntryStep(m, object, i, path, r))

\* The end of the closure objectValidator returns: the number of leftover
\* fields against min and max.
CheckLeftovers(m, path, r) ==
    IF r.res # "true" THEN Ret(r.res, r.st)
    ELSE IF r.leftovers < m.min \/ r.leftovers > m.max
    THEN Ret("false", Push(r.st, "Encountered extra fields", path,
                           <<r.leftovers, m.min, m.max>>))
    ELSE Ret("true", r.st)

\* An objectValidator closure without the `if (!ok) return false` after
\* the required fields: the optional fields and the leftovers are looked
\* at all the same.
objectValidatorCallNoEarlyReturn(m, object, path, st) ==
    IF ~isObject(object)
    THEN Ret("false", Push(st, "expected an object literal", path,
                           <<TypeOf(object), object>>))
    ELSE LET req == EveryRequired(m.required, object, 1, path, Ret("true", st))
             rest == CheckLeftovers(m, path,
                         EveryEntry(m, object, 1, path,
                                    WithLeftovers(Ret("true", req.st), 0)))
         IN  IF req.res = "false" THEN Ret("false", rest.st)
             ELSE IF req.res = "throw" THEN req
             ELSE rest

\* The closure objectValidator returns: the required fields, and when they
\* are ok the optional fields and the leftovers.
objectValidatorCall(m, object, path, st) ==
    IF ~isObject(object)
    THEN Ret("false", Push(st, "expected an object literal", path,
                           <<TypeOf(object), object>>))
    ELSE CheckLeftovers(m, path,
             EveryEntry(m, object, 1, path,
                 WithLeftovers(EveryRequired(m.required, object, 1, path,
                                             Ret("true", st)), 0)))

\* A placeholder that kept what its cell held when it was compiled:
\* nothing, so that it matches no value.
placeholderCallUnbound(m, value, path, st) ==
    Ret("false", st)

\* The placeholder called at match time: it reads its cell then, and the
\* matcher the cell is bound to takes the value.
placeholderCall(m, value, path, st) ==
    Run(st.cells[m.cell], value, Append(path, 0), st)

\* Leaving a recursive matcher: the cells are the caller's again.
LeaveRecursive(r, cells) == Ret(r.res, [r.st EXCEPT !.cells = cells])

\* The matcher recursive returns: the matcher its cell is bound to, with
\* the cells in reach of the placeholders inside it.
recursiveValidatorCall(m, value, path, st) ==
    LeaveRecursive(Run(m.cells[m.root], value, Append(path, 0),
                       [st EXCEPT !.cells = m.cells]),
                   st.cells)

\* History: the call of the validator at `path` is recorded as it ends,
\* with the length of the errors array when it began (st) and when it
\* ended.
Traced(m, path, st, r) ==
    Ret(r.res, [r.st EXCEPT !.trace =
                    Append(@, [path |-> path, kind |-> m.m, res |-> r.res,
                               entered |-> Len(st.log),
                               logged |-> Len(r.st.log)])])

\* The body of a compiled validator, by the function that made it.
Dispatch(m, value, path, st) ==
    CASE m.m = "type" -> typeValidatorCall(m, value, path, st)
      [] m.m = "literal" -> literalValidatorCall(m, value, path, st)
      [] m.m = "fixedArray" -> fixedArrayValidatorCall(m, value, path, st)
      [] m.m = "dynamicArray" -> dynamicArrayValidatorCall(m, value, path, st)
      [] m.m = "true" -> Ret("true", st)
      [] m.m = "or" -> orValidatorCall(m, value, path, st)
      [] m.m = "wildcard" -> wildcardObjectValidatorCall(m, value, path, st)
      [] m.m = "object" -> objectValidatorCall(m, value, path, st)
      [] m.m = "placeholder" -> placeholderCall(m, value, path, st)
      [] m.m = "recursive" -> recursiveValidatorCall(m, value, path, st)

\* Invoking a compiled validator on a value.
Run(m, value, path, st) == Traced(m, path, st, Dispatch(m, value, path, st))

\* ------------------------------------------------- the public surface
\* A wrapper that forgets to clear the array on entry.
ClearOnEntryForgotten(errors) == errors

\* A wrapper that truncates the array to its first element on entry.
ClearOnEntryKeepsFirst(errors) ==
    IF errors = <<>> THEN <<>> ELSE <<errors[1]>>

\* errors.length = 0 on entry to validate.
ClearOnEntry(errors) == <<>>

\* A wrapper that forgets to clear the array after a match.
ClearOnMatchForgotten(errors) == errors

\* errors.length = 0 once the root validator has matched.
ClearOnMatch(errors) == <<>>

\* A wrapper that reads the array: diagnostics still in it are taken for
\* the verdict, and the root validator is not run.
validateReadingLog(impl, value, errors, call) ==
    IF errors # <<>>
    THEN [res |-> "false", errors |-> errors, trace |-> <<>>,
          pushed |-> Len(errors), count |-> 0]
    ELSE LET r == Run(impl, value, <<>>,
                      [log |-> ClearOnEntry(errors), trace |-> <<>>,
                       call |-> call, cells |-> <<>>, count |-> 0])
         IN  [res |-> r.res,
              errors |-> IF r.res = "true" THEN ClearOnMatch(r.st.log)
                         ELSE r.st.log,
              trace |-> r.st.trace,
              pushed |-> Len(r.st.log),
              count |-> r.st.count]

\* The function wrappedValidator returns: the boolean (or the exception)
\* and the errors array as the call leaves it.  History: the trace, and
\* the number of diagnostics the root validator had pushed when it ended,
\* and the number of pushes made during the call.
validate(impl, value, errors, call) ==
    LET r == Run(impl, value, <<>>,
                 [log |-> ClearOnEntry(errors), trace |-> <<>>, call |-> call,
                  cells |-> <<>>, count |-> 0])
    IN  [res |-> r.res,
         errors |-> IF r.res = "true" THEN ClearOnMatch(r.st.log) ELSE r.st.log,
         trace |-> r.st.trace,
         pushed |-> Len(r.st.log),
         count |-> r.st.count]

\* The text of a diagnostic, without the history fields.
Text(entry) == [code |-> entry.code, with |-> entry.with]
Texts(log) == [i \in 1..Len(log) |-> Text(log[i])]

\* A join that stops after the first element.
JoinFirstOnly(texts) ==
    IF Len(texts) = 0 THEN <<>> ELSE <<texts[1]>>

\* errors.join('\n'): the texts in order, a newline between neighbours.
RECURSIVE Join(_)
Join(texts) ==
    IF Len(texts) = 0 THEN <<>>
    ELSE IF Len(texts) = 1 THEN <<texts[1]>>
    ELSE <<texts[1], "\n">> \o Join(Tail(texts))

TypeErrorMessage == <<"TypeError: Cannot convert undefined or null to object">>

\* validate.enforce: what the call does (returns its argument or throws),
\* and the errors array afterwards.
enforce(impl, object, errors, call) ==
    LET r == validate(impl, object, errors, call)
    IN  CASE r.res = "throw" ->
               [res |-> r.res, errors |-> r.errors, trace |-> r.trace,
                pushed |-> r.pushed, count |-> r.count,
                outcome |-> "threw", returned |-> <<>>,
                message |-> TypeErrorMessage]
          [] r.res = "false" ->
               [res |-> r.res, errors |-> r.errors, trace |-> r.trace,
                pushed |-> r.pushed, count |-> r.count,
                outcome |-> "threw", returned |-> <<>>,
                message |-> Join(Texts(r.errors))]
          [] r.res = "true" ->
               [res |-> r.res, errors |-> r.errors, trace |-> r.trace,
                pushed |-> r.pushed, count |-> r.count,
                outcome |-> "returned", returned |-> <<object>>,
                message |-> <<>>]

\* compile (exported as compileString and compileFunction): the evaluated
\* schema goes through validatorImpl; an exception leaves no validator.
compile(schema) == validatorImpl(schema)

\* ------------------------------------------------------------- inputs
TNumber == TypeTag("Number")
TString == TypeTag("String")
TBoolean == TypeTag("Boolean")
TObject == TypeTag("Object")
TArray == TypeTag("Array")
StrA == Str(<<"a">>)
\* or(Number, "a")
NumberOrA == Or(<<TNumber, Lit(StrA)>>)
\* {a: Number}
ObjANumber == ObjS(<<<<KeyA, TNumber>>>>, <<>>, <<>>)
\* {a: Number, "b?": String}
ObjAOptB == ObjS(<<<<KeyA, TNumber>>, <<KeyBOpt, TString>>>>, <<>>, <<>>)
\* {[Any]: Number}
WildNumber == ObjS(<<>>, <<>>, <<TNumber>>)
\* The validator of a dependency unit whose schema is {a: Number}.
Dependency == Compiled(validatorImpl(ObjANumber))

LeafSchemas ==
    {TNumber, TString, TBoolean, TObject, TArray,
     Lit(Null), Lit(Num(1)), Lit(StrA), Lit(Bool(TRUE)), Any}

ArraySchemas ==
    {ArrS(<<>>), ArrS(<<TNumber>>), ArrS(<<TNumber, TString>>),
     ArrS(<<TNumber, EtcBare>>),
     ArrS(<<TString, TNumber, EtcCall(1, 2)>>),
     ArrS(<<TNumber, EtcCall(1, Undefined)>>),
     ArrS(<<NumberOrA, TString>>),
     ArrS(<<TNumber, EtcBare, EtcBare>>),
     ArrS(<<WildNumber>>), ArrS(<<Any, TNumber>>),
     ArrS(<<TNumber, ObjS(<<>>, <<Occurrence(Undefined, Undefined)>>, <<>>)>>),
     ArrS(<<ObjS(<<>>, <<Occurrence(Undefined, Undefined)>>, <<>>), TNumber, EtcBare>>)}

ObjectSchemas ==
    {ObjS(<<>>, <<>>, <<>>), ObjANumber, ObjAOptB,
     ObjS(<<<<KeyA, TNumber>>, <<KeyB, TString>>>>, <<>>, <<>>),
     ObjS(<<<<KeyA, TNumber>>>>, <<Occurrence(Undefined, Undefined)>>, <<>>),
     ObjS(<<>>, <<Occurrence(1, Undefined)>>, <<>>),
     ObjS(<<<<KeyA, TNumber>>, <<KeyBOpt, TString>>>>, <<Occurrence(1, 1)>>, <<>>),
     ObjS(<<<<KeyBOpt, TString>>>>, <<Occurrence(0, 1)>>, <<>>),
     ObjS(<<<<KeyA, NumberOrA>>, <<KeyB, TString>>>>, <<>>, <<>>)}

WildcardSchemas ==
    {WildNumber,
     ObjS(<<>>, <<>>, <<TString>>),
     ObjS(<<>>, <<Occurrence(Undefined, Undefined)>>, <<TNumber>>),
     ObjS(<<>>, <<Occurrence(1, 2)>>, <<TNumber>>),
     ObjS(<<<<KeyA, TString>>>>, <<>>, <<TNumber>>),
     ObjS(<<>>, <<>>, <<Lit(Null)>>)}

UnionSchemas ==
    {NumberOrA,
     Or(<<TString, TNumber, TBoolean>>),
     Or(<<ArrS(<<TNumber>>), ObjANumber>>),
     Or(<<Or(<<TBoolean, TNumber>>), Lit(StrA)>>),
     Or(<<WildNumber, Lit(Null)>>),
     Or(<<Lit(Null), WildNumber>>)}

DependencySchemas ==
    {Dependency,
     ArrS(<<Dependency, EtcBare>>),
     ObjS(<<<<KeyA, Dependency>>>>, <<>>, <<>>),
     Or(<<Dependency, TNumber>>)}

\* Schemas that compile throws on.
BrokenSchemas ==
    {Invalid, ArrS(<<EtcBare>>), ArrS(<<TNumber, EtcBare, TString>>),
     ObjS(<<<<KeyA, Invalid>>>>, <<>>, <<>>),
     ObjS(<<<<KeyLength, TNumber>>>>, <<>>, <<TNumber>>)}

\* recursive(expression => or(Number, {'+': [expression, ...etc]}))
Expression ==
    Recursive(Or(<<TNumber,
                   ObjS(<<<<KeyPlus, ArrS(<<Self, EtcBare>>)>>>>, <<>>, <<>>)>>))

\* const {yin, yang} = recursive(({yin, yang}) => ({
\*     yin: [String, Number, yang, ...etc],
\*     yang: {'contrived': or(yin, String)}}))
YinYang ==
    <<<<"yin", ArrS(<<TString, TNumber, Member("yang"), EtcBare>>)>>,
      <<"yang", ObjS(<<<<KeyContrived, Or(<<Member("yin"), TString>>)>>>>,
                     <<>>, <<>>)>>>>
\* A group whose member `helper` is used by `list` only.
WithHelper ==
    <<<<"leaf", TNumber>>,
      <<"list", ArrS(<<Member("helper"), EtcBare>>)>>,
      <<"helper", Or(<<Member("leaf"), Member("list")>>)>>>>
\* A group that reads self.zed and returns no definition for it.
Dangling ==
    <<<<"yin", ArrS(<<Member("zed"), EtcBare>>)>>,
      <<"yang", Or(<<Member("yin"), TString>>)>>>>

GroupSchemas ==
    {Group(YinYang, "yin"), Group(YinYang, "yang"),
     Group(WithHelper, "leaf"), Group(WithHelper, "list"),
     Group(Dangling, "yin"), Group(Dangling, "yang")}

RecursiveSchemas == {Expression} \cup GroupSchemas

Schemas ==
    LeafSchemas \cup ArraySchemas \cup ObjectSchemas \cup WildcardSchemas
        \cup UnionSchemas \cup DependencySchemas \cup BrokenSchemas
        \cup RecursiveSchemas

\* Candidate values.
Atoms == {Null, Bool(TRUE), Num(1), StrA}
ElementValues == {Num(1), StrA}

RECURSIVE SeqsUpTo(_, _)
SeqsUpTo(S, n) ==
    IF n = 0 THEN {<<>>}
    ELSE LET shorter == SeqsUpTo(S, n - 1)
         IN  shorter \cup {Append(q, x) : q \in shorter, x \in S}

ArrayValues == {Arr(q) : q \in SeqsUpTo(ElementValues, MaxArrayLen)}

\* The entry for a key, or nothing when the key is absent.
Entry(key, choice) == IF choice = <<>> THEN <<>> ELSE <<<<key, choice[1]>>>>
Choices(S) == {<<>>} \cup {<<x>> : x \in S}

\* Plain objects: a and b absent or holding a number or a string, and
\* at most one further key, c or toString.
PlainObjectValues ==
    {Obj(Entry(KeyA, a) \o Entry(KeyB, b) \o extra) :
        a \in Choices(ElementValues), b \in Choices(ElementValues),
        extra \in {<<>>, <<<<KeyC, Num(1)>>>>, <<<<KeyToString, Num(1)>>>>}}

OtherValues ==
    {Arr(<<Null>>), Arr(<<Obj(<<<<KeyA, Num(1)>>>>)>>),
     Arr(<<StrA, Num(1), Num(1)>>), Arr(<<StrA, Num(1), Num(1), Num(1)>>),
     Arr(<<Num(1), Obj(<<>>)>>),
     Obj(<<<<KeyA, Obj(<<<<KeyA, Num(1)>>>>)>>>>),
     Obj(<<<<KeyA, Null>>>>),
     Obj(<<<<KeyC, Num(1)>>, <<KeyToString, Num(1)>>>>),
     Str(<<"a", "b">>)}

\* {'+': elements}
Plus(elements) == Obj(<<<<KeyPlus, elements>>>>)
NotArray == Str(<<"n", "o", "t", " ", "a", "r", "r", "a", "y">>)

\* Candidates for the recursive schema: trees of '+' objects.
TreeValues ==
    {Num(3), Plus(Arr(<<>>)),
     Plus(Arr(<<Num(1), Plus(Arr(<<Num(2), Num(3)>>))>>)),
     Plus(NotArray),
     Plus(Arr(<<Num(1), Plus(Arr(<<StrA>>))>>))}

\* {'contrived': value}
Contrived(value) == Obj(<<<<KeyContrived, value>>>>)

\* Candidates for the mutually recursive schemas.
YinYangValues ==
    {Arr(<<StrA, Num(1), Contrived(StrA)>>),
     Arr(<<StrA, Num(1), Contrived(Arr(<<StrA, Num(1)>>)), Contrived(Num(1))>>),
     Contrived(StrA), Contrived(Arr(<<StrA, Num(1)>>)),
     Contrived(Arr(<<StrA, Num(1), Contrived(StrA)>>)),
     Arr(<<Arr(<<Num(1)>>), Num(1)>>)}

Values ==
    Atoms \cup ArrayValues \cup PlainObjectValues \cup OtherValues
        \cup TreeValues \cup YinYangValues

\* -------------------------------------------------------------- state
VARIABLES
    pc,      \* "start", "ready" (compile returned) or "failed" (compile threw)
    schema,  \* the schema handed to compile
    impl,    \* the root validator that wrappedValidator wraps
    errors,  \* the shared errors array
    calls,   \* history: the number of top-level calls made
    last,    \* history: the latest top-level call and what it did
    prev,    \* history: whether the call before left diagnostics, and what
             \* it did when it had the same argument as the latest call
    entry,     \* compiling files: "none", "compileFile" or "compileFiles"
    result,    \* of the entry point: "none", then "returned" or "threw"
    roots,     \* the paths the entry point has still to hand to compileFile
    registry,  \* `validators`: path |-> the validator compiled from the file
    stack,     \* the compileFile calls under way, the innermost last
    request,   \* the argument of the compileFile call about to start, if any
    loads,     \* history: the files read, in order
    handed,    \* history: the validators handed to `init` of a dependent
    arrays     \* the errors arrays the entry point made, by identity

unitVars ==
    <<entry, result, roots, registry, stack, request, loads, handed, arrays>>
vars == <<pc, schema, impl, errors, calls, last, prev, unitVars>>

NoCall == [op |-> "none"]
NoValidator == [m |-> "none"]

Init ==
    /\ pc = "start"
    /\ schema = [k |-> "none"]
    /\ impl = NoValidator
    /\ errors = <<>>
    /\ calls = 0
    /\ last = NoCall
    /\ prev = [logged |-> FALSE, same |-> <<>>]
    /\ entry = "none"
    /\ result = "none"
    /\ roots = <<>>
    /\ registry = <<>>
    /\ stack = <<>>
    /\ request = <<>>
    /\ loads = <<>>
    /\ handed = <<>>
    /\ arrays = <<>>

\* What the next call remembers of the one before it.
Remember(value) ==
    [logged |-> errors # <<>>,
     same |-> IF last.op # "none" /\ last.value = value
              THEN <<[res |-> last.res, texts |-> Texts(errors)]>>
              ELSE <<>>]

\* compile(schema) returns a validator.
CompileOk(s) ==
    /\ pc = "start"
    /\ ~Thrown(compile(s))
    /\ pc' = "ready"
    /\ schema' = s
    /\ impl' = compile(s)
    /\ UNCHANGED <<errors, calls, last, prev, unitVars>>

\* compile(schema) throws.
CompileThrows(s) ==
    /\ pc = "start"
    /\ Thrown(compile(s))
    /\ pc' = "failed"
    /\ schema' = s
    /\ UNCHANGED <<impl, errors, calls, last, prev, unitVars>>

\* validate(value)
Validate(value) ==
    /\ pc = "ready"
    /\ calls < MaxCalls
    /\ LET r == validate(impl, value, errors, calls + 1)
       IN  /\ errors' = r.errors
           /\ last' = [op |-> "validate", value |-> value, res |-> r.res,
                       trace |-> r.trace, pushed |-> r.pushed,
                       count |-> r.count,
                       outcome |-> IF r.res = "throw" THEN "threw" ELSE "returned",
                       returned |-> IF r.res = "throw" THEN <<>>
                                    ELSE <<Bool(r.res = "true")>>,
                       message |-> IF r.res = "throw" THEN TypeErrorMessage
                                   ELSE <<>>]
    /\ calls' = calls + 1
    /\ prev' = Remember(value)
    /\ UNCHANGED <<pc, schema, impl, unitVars>>

\* validate.enforce(value)
Enforce(value) ==
    /\ pc = "ready"
    /\ calls < MaxCalls
    /\ LET r == enforce(impl, value, errors, calls + 1)
       IN  /\ errors' = r.errors
           /\ last' = [op |-> "enforce", value |-> value, res |-> r.res,
                       trace |-> r.trace, pushed |-> r.pushed,
                       count |-> r.count,
                       outcome |-> r.outcome,
                       returned |-> r.returned, message |-> r.message]
    /\ calls' = calls + 1
    /\ prev' = Remember(value)
    /\ UNCHANGED <<pc, schema, impl, unitVars>>

Next ==
    \/ \E s \in Schemas : CompileOk(s)
    \/ \E s \in Schemas : CompileThrows(s)
    \/ \E value \in Values : Validate(value)
    \/ \E value \in Values : Enforce(value)

Spec == Init /\ [][Next]_vars

\* ------------------------------------------------ compiling from files
\* A path is its segments in order: './s/c' is <<".", "s", "c">>.

\* path.normalize, a segment at a time: "." is dropped and ".." takes back
\* the segment before it; the empty path is ".".
RECURSIVE NormalizeFrom(_, _, _)
NormalizeFrom(p, i, acc) ==
    IF i > Len(p) THEN (IF acc = <<>> THEN <<".">> ELSE acc)
    ELSE NormalizeFrom(p, i + 1,
             IF p[i] = "." THEN acc
             ELSE IF p[i] = ".." /\ acc # <<>> /\ acc[Len(acc)] # ".."
             THEN SubSeq(acc, 1, Len(acc) - 1)
             ELSE Append(acc, p[i]))

normalize(p) == NormalizeFrom(p, 1, <<>>)
\* path.join joins and normalizes.
join(a, b) == normalize(a \o b)
dirname(p) == IF Len(p) = 1 THEN <<".">> ELSE SubSeq(p, 1, Len(p) - 1)

\* The schema files on disk, by unit: a diamond a -> b, a -> c, b -> d,
\* c -> d with c in the directory s, a file e whose schema does not
\* compile, two files p -> q and q -> p that depend on each other, and a
\* file r -> d, r -> p.
Files == {"a", "b", "c", "d", "e", "p", "q", "r"}
Location(u) == IF u = "c" THEN <<"s", "c">> ELSE <<u>>

\* The dependency paths of the `define` call in the file of a unit.
deps(u) ==
    CASE u = "a" -> <<<<".", "b">>, <<".", "s", "c">>>>
      [] u = "b" -> <<<<".", "d">>>>
      [] u = "c" -> <<<<"..", "d">>>>
      [] u = "p" -> <<<<".", "q">>>>
      [] u = "q" -> <<<<".", "p">>>>
      [] u = "r" -> <<<<".", "d">>, <<".", "p">>>>
      [] OTHER -> <<>>

\* The schema the `init` function of the file returns, given the compiled
\* dependencies.
init(u, dep_schemas) ==
    CASE u = "a" -> ObjS(<<<<KeyB, Compiled(dep_schemas[1].validator)>>,
                           <<KeyC, Compiled(dep_schemas[2].validator)>>>>,
                         <<>>, <<>>)
      [] u = "b" -> ArrS(<<Compiled(dep_schemas[1].validator), EtcBare>>)
      [] u = "c" -> Or(<<Compiled(dep_schemas[1].validator), TString>>)
      [] u = "d" -> ObjANumber
      [] u = "e" -> ArrS(<<EtcBare>>)
      [] u = "p" -> ArrS(<<Compiled(dep_schemas[1].validator), EtcBare>>)
      [] u = "q" -> Or(<<Compiled(dep_schemas[1].validator), TNumber>>)
      [] u = "r" -> ObjS(<<<<KeyA, Compiled(dep_schemas[1].validator)>>,
                           <<KeyB, Compiled(dep_schemas[2].validator)>>>>,
                         <<>>, <<>>)

\* fs.readFileSync finds the file a path leads to, however it is spelled.
Exists(path) == \E u \in Files : Location(u) = normalize(path)
FileAt(path) == CHOOSE u \in Files : Location(u) = normalize(path)

\* `schemaPath in validators`: an own key of the registry, or a name it
\* inherits from Object.prototype.
InValidators(path) == path \in DOMAIN registry \/ path = <<"toString">>

\* validators[schemaPath]: the stored function, identified by the read
\* that led to it, or the inherited method.
Lookup(path) ==
    IF path \in DOMAIN registry THEN registry[path]
    ELSE [id |-> 0, unit |-> "Object.prototype.toString",
          validator |-> [m |-> "native"]]

\* The paths handed to compileFile, and the lists of paths glob returns
\* to compileFiles (the output of ls for 'd p', '[abd]', './[abd]',
\* 'd s/*', './d', 's/c b' and './s/* ./d').
RootPaths ==
    {<<"a">>, <<".", "a">>, <<"b">>, <<".", "b">>, <<"s", "c">>,
     <<".", "s", "c">>, <<"d">>, <<"e">>, <<"x">>, <<"toString">>,
     <<"p">>, <<"r">>}
GlobResults ==
    {<< <<"d">>, <<"p">> >>,
     << <<"a">>, <<"b">>, <<"d">> >>,
     << <<".", "a">>, <<".", "b">>, <<".", "d">> >>,
     << <<"d">>, <<"s", "c">> >>,
     << <<".", "d">> >>,
     << <<"s", "c">>, <<"b">> >>,
     << <<".", "s", "c">>, <<".", "d">> >>}

\* What compiling files leaves alone.
matchVars == <<pc, schema, impl, errors, calls, last, prev, arrays>>

\* compileOneFile(schemaPath) begins: compileFile(schemaPath, {}, []).
CompileOneFile(path) ==
    /\ pc = "start"
    /\ entry = "none"
    /\ entry' = "compileFile"
    /\ roots' = <<path>>
    /\ request' = <<path>>
    /\ UNCHANGED <<result, registry, stack, loads, handed, matchVars>>

\* compileFiles(...glob_patterns) begins: paths.forEach(compileFile).
CompileFiles(paths) ==
    /\ pc = "start"
    /\ entry = "none"
    /\ entry' = "compileFiles"
    /\ roots' = paths
    /\ request' = <<paths[1]>>
    /\ UNCHANGED <<result, registry, stack, loads, handed, matchVars>>

\* compileFile returns `validator` to its caller: to the deps.map of the
\* dependent under way, or to the entry point, which goes on to its next
\* path or returns.
Return(validator, callers) ==
    IF callers # <<>>
    THEN /\ stack' = [callers EXCEPT ![Len(callers)].dep_schemas =
                                          Append(@, validator)]
         /\ handed' = Append(handed, [to |-> callers[Len(callers)].load,
                                      unit |-> validator.unit,
                                      id |-> validator.id])
         /\ request' = <<>>
         /\ UNCHANGED <<roots, result>>
    ELSE /\ stack' = <<>>
         /\ roots' = Tail(roots)
         /\ request' = IF Tail(roots) = <<>> THEN <<>> ELSE <<Tail(roots)[1]>>
         /\ result' = IF Tail(roots) = <<>> THEN "returned" ELSE result
         /\ UNCHANGED handed

\* compileFile: the path is in the registry.
CompileFileKnown ==
    /\ request # <<>>
    /\ InValidators(request[1])
    /\ Return(Lookup(request[1]), stack)
    /\ UNCHANGED <<entry, registry, loads, matchVars>>

\* A compileFile that enters the unit into the registry as it begins,
\* before the definition is compiled.
CompileFileReadRegistering ==
    /\ request # <<>>
    /\ ~InValidators(request[1])
    /\ Exists(request[1])
    /\ Len(stack) < MaxDepth
    /\ loads' = Append(loads, FileAt(request[1]))
    /\ stack' = Append(stack, [schemaPath |-> request[1],
                               unit |-> FileAt(request[1]),
                               load |-> Len(loads) + 1,
                               dep_schemas |-> <<>>])
    /\ registry' = [q \in DOMAIN registry \cup {request[1]} |->
                       IF q = request[1]
                       THEN [id |-> Len(loads) + 1, unit |-> FileAt(request[1]),
                             validator |-> [m |-> "true"]]
                       ELSE registry[q]]
    /\ request' = <<>>
    /\ UNCHANGED <<entry, result, roots, handed, matchVars>>

\* compileFile: the path is not in the registry; the file is read and
\* compileImpl begins.  (The calls under way are followed to the depth
\* MaxDepth.)
CompileFileRead ==
    /\ request # <<>>
    /\ ~InValidators(request[1])
    /\ Exists(request[1])
    /\ Len(stack) < MaxDepth
    /\ loads' = Append(loads, FileAt(request[1]))
    /\ stack' = Append(stack, [schemaPath |-> request[1],
                               unit |-> FileAt(request[1]),
                               load |-> Len(loads) + 1,
                               dep_schemas |-> <<>>])
    /\ request' = <<>>
    /\ UNCHANGED <<entry, result, roots, registry, handed, matchVars>>

\* compileFile: there is no such file; readFileSync throws.
CompileFileThrows ==
    /\ request # <<>>
    /\ ~InValidators(request[1])
    /\ ~Exists(request[1])
    /\ result' = "threw"
    /\ stack' = <<>>
    /\ request' = <<>>
    /\ roots' = <<>>
    /\ UNCHANGED <<entry, registry, loads, handed, matchVars>>

\* defineSchema: deps.map reaches the next dependency and calls
\* compileFile with its path rebased on the directory of the file.
DefineSchema ==
    /\ request = <<>>
    /\ stack # <<>>
    /\ LET top == stack[Len(stack)]
       IN  /\ Len(top.dep_schemas) < Len(deps(top.unit))
           /\ request' = <<join(dirname(top.schemaPath),
                                deps(top.unit)[Len(top.dep_schemas) + 1])>>
    /\ UNCHANGED <<entry, result, roots, registry, stack, loads, handed, matchVars>>

\* compileImpl ends: init(...dep_schemas) gives the schema, validatorImpl
\* compiles it, and compileFile stores the validator under the path.
CompileFileStore ==
    /\ request = <<>>
    /\ stack # <<>>
    /\ LET top == stack[Len(stack)]
           validator == [id |-> top.load, unit |-> top.unit,
                         validator |-> validatorImpl(init(top.unit, top.dep_schemas))]
       IN  /\ Len(top.dep_schemas) = Len(deps(top.unit))
           /\ ~Thrown(validator.validator)
           /\ registry' = [q \in DOMAIN registry \cup {top.schemaPath} |->
                              IF q = top.schemaPath THEN validator ELSE registry[q]]
           /\ Return(validator, SubSeq(stack, 1, Len(stack) - 1))
    /\ UNCHANGED <<entry, loads, matchVars>>

\* compileImpl ends with the exception validatorImpl threw.
CompileImplThrows ==
    /\ request = <<>>
    /\ stack # <<>>
    /\ LET top == stack[Len(stack)]
       IN  /\ Len(top.dep_schemas) = Len(deps(top.unit))
           /\ Thrown(validatorImpl(init(top.unit, top.dep_schemas)))
    /\ result' = "threw"
    /\ stack' = <<>>
    /\ roots' = <<>>
    /\ UNCHANGED <<entry, request, registry, loads, handed, matchVars>>

\* A compileFiles that makes an errors array for each validator it
\* wraps.
ErrorsOfOwn(instance) == instance.id

\* The errors array a validator the entry point returns is wrapped with,
\* and which is bound in it: `errors = []` is made once per entry
\* point (array 1) and handed to every compileFile and to every
\* wrappedValidator.
ErrorsOf(instance) == 1

\* The content of an errors array; a new array is empty.
ArrayAt(id) == IF id \in DOMAIN arrays THEN arrays[id] ELSE <<>>

\* The validators the entry point returned: compileFiles returns the
\* whole registry, compileOneFile the validator of its path, which is the
\* file read first.
Returned ==
    {path \in DOMAIN registry :
        entry = "compileFiles" \/ registry[path].id = 1}

\* Candidates handed to the validators compiled from files.
UnitValues == {Num(1), Obj(<<<<KeyA, Num(1)>>>>), Arr(<<StrA>>)}

\* validators[path](value): a call of a returned validator, which works
\* on the errors array it was wrapped with.
CallValidator(path, value) ==
    /\ result = "returned"
    /\ path \in Returned
    /\ calls < MaxCalls
    /\ LET id == ErrorsOf(registry[path])
           r == validate(registry[path].validator, value, ArrayAt(id), calls + 1)
       IN  /\ arrays' = [i \in DOMAIN arrays \cup {id} |->
                             IF i = id THEN r.errors ELSE arrays[i]]
           /\ last' = [op |-> "call", path |-> path, value |-> value,
                       res |-> r.res, errors |-> r.errors]
           /\ prev' = [logged |-> ArrayAt(id) # <<>>, same |-> <<>>,
                       path |-> IF last.op = "call" THEN <<last.path>> ELSE <<>>]
    /\ calls' = calls + 1
    /\ UNCHANGED <<pc, schema, impl, errors, entry, result, roots, registry,
                   stack, request, loads, handed>>

UnitNext ==
    \/ \E path \in RootPaths : CompileOneFile(path)
    \/ \E paths \in GlobResults : CompileFiles(paths)
    \/ CompileFileKnown
    \/ CompileFileRead
    \/ CompileFileThrows
    \/ DefineSchema
    \/ CompileFileStore
    \/ CompileImplThrows
    \/ \E path \in DOMAIN registry, value \in UnitValues :
           CallValidator(path, value)

UnitSpec == Init /\ [][UnitNext]_vars

\* The calls are synchronous: a compile that has begun goes on as long
\* as it has a step to take.
UnitStep ==
    \/ CompileFileKnown
    \/ CompileFileRead
    \/ CompileFileThrows
    \/ DefineSchema
    \/ CompileFileStore
    \/ CompileImplThrows

UnitLiveSpec == Init /\ [][UnitNext]_vars /\ WF_vars(UnitStep)

\* ------------------------------------------------------------- claims
\* The units the file of a unit names as dependencies.
Direct(u) ==
    {FileAt(join(dirname(Location(u)), deps(u)[i])) : i \in 1..Len(deps(u))}

\* The units reached from a set of units in at most n more steps.
RECURSIVE Closure(_, _)
Closure(S, n) ==
    IF n = 0 THEN S
    ELSE Closure(S \cup UNION {Direct(u) : u \in S}, n - 1)

\* The units a unit depends on, directly or not.
Below(u) == Closure(Direct(u), Cardinality(Files))

\* A cycle among units can be reached from the unit.
CycleReachable(u) == \E v \in Below(u) \cup {u} : v \in Below(v)

\* The units whose file holds a pattern that validatorImpl throws on.
BrokenUnits ==
    {u \in Files : deps(u) = <<>> /\ Thrown(validatorImpl(init(u, <<>>)))}

\* The unit and all it depends on define patterns that compile.
WellFormed(u) == (Below(u) \cup {u}) \cap BrokenUnits = {}

Called == last.op # "none"

\* C1: after any top-level call, every diagnostic in the log was pushed
\* by that call: no entry of an earlier call survives into a later call's
\* log.
C1_LogHoldsOnlyThisCall ==
    \A i \in 1..Len(errors) : errors[i].stamp = calls

\* C1 witness: a second call that fails, after a call that left
\* diagnostics behind.
C1_Witness ==
    /\ calls = 2
    /\ prev.logged
    /\ errors # <<>>

\* C2: whenever validate returns true the log is empty on return, even if
\* failed union alternatives pushed diagnostics during the call.
C2_EmptyLogOnTrue ==
    Called /\ last.res = "true" => errors = <<>>

\* C2 witness: validate returned true although a failed alternative of a
\* union had pushed diagnostics during the call.
C2_Witness ==
    /\ Called
    /\ last.op = "validate"
    /\ last.res = "true"
    /\ last.pushed > 0
    /\ \E i \in 1..Len(last.trace) :
          last.trace[i].res = "false" /\ Len(last.trace[i].path) = 1
    /\ impl.m = "or"

\* C3: whenever validate returns false the log holds at least one
\* diagnostic, whatever kind of validator failed.
C3_DiagnosticOnFalse ==
    Called /\ last.res = "false" => Len(errors) >= 1

\* C3 witness: a variadic array validator fails on the number of trailing
\* elements, which is its last diagnostic.
C3_Witness ==
    /\ Called
    /\ last.res = "false"
    /\ impl.m = "dynamicArray"
    /\ errors[Len(errors)].code = "...etc(min, max) at end of array pattern"

\* C4: validate always returns a boolean, true or false, and never throws,
\* for any candidate value whatsoever.
C4_ValidateNeverThrows ==
    last.op = "validate" =>
        /\ last.outcome = "returned"
        /\ last.returned \in {<<Bool(TRUE)>>, <<Bool(FALSE)>>}

IsPrefix(p, q) == Len(p) <= Len(q) /\ SubSeq(q, 1, Len(p)) = p

\* The unions the latest call invoked exactly once and that matched, as
\* indexes into the trace.
SucceededUnions ==
    {k \in 1..Len(last.trace) :
        /\ last.trace[k].kind = "or"
        /\ last.trace[k].res = "true"
        /\ \A l \in 1..Len(last.trace) :
               last.trace[l].path = last.trace[k].path => l = k}

\* The paths of the alternatives of union k that were tried and failed.
FailedAlternatives(k) ==
    {last.trace[l].path : l \in {x \in 1..Len(last.trace) :
        /\ last.trace[x].res = "false"
        /\ Len(last.trace[x].path) = Len(last.trace[k].path) + 1
        /\ IsPrefix(last.trace[k].path, last.trace[x].path)}}

\* C7 as stated: when a union matched after earlier alternatives failed,
\* the log holds no diagnostic of those failed alternatives, also when the
\* enclosing pattern fails elsewhere.
C7_FailedAlternativesRetracted ==
    Called =>
        \A k \in SucceededUnions : \A a \in FailedAlternatives(k) :
            \A e \in 1..Len(errors) : ~IsPrefix(a, errors[e].path)

\* C7 amended: a union removes nothing; when the top-level call does not
\* return true, the log still holds the diagnostics of the failed
\* alternatives of every union that matched.
C7_FailedAlternativesStayLogged ==
    Called /\ last.res # "true" =>
        /\ Len(errors) = last.pushed
        /\ \A k \in SucceededUnions : \A a \in FailedAlternatives(k) :
               \E e \in 1..Len(errors) : IsPrefix(a, errors[e].path)

\* C7 witness: the call returned false although a nested union matched
\* on a later alternative after an earlier one had failed.
C7_Witness ==
    /\ Called
    /\ last.res = "false"
    /\ \E k \in SucceededUnions :
          /\ Len(last.trace[k].path) >= 1
          /\ FailedAlternatives(k) # {}

\* Alternative i of the root union, invoked on its own on the latest
\* candidate, returns true.
AlternativeMatches(i) ==
    Run(impl.validators[i], last.value, <<i>>,
        [log |-> <<>>, trace |-> <<>>, call |-> calls, cells |-> <<>>, count |-> 0]).res = "true"

\* The alternatives of the root union the latest call invoked, in the
\* order in which they ended.
AlternativesTried ==
    SelectSeq(last.trace, LAMBDA t : Len(t.path) = 1)

\* C8: a union with at least one alternative matches a value iff at
\* least one alternative matches it; alternatives are tried in declared
\* order and no alternative after the first successful one is invoked.
C8_UnionIffSomeAlternative ==
    Called /\ impl.m = "or" =>
        /\ last.res = "true" <=>
               \E i \in 1..Len(impl.validators) : AlternativeMatches(i)
        /\ \A n \in 1..Len(AlternativesTried) :
               /\ AlternativesTried[n].path = <<n>>
               /\ n < Len(AlternativesTried) => AlternativesTried[n].res = "false"

\* The schema handed to compile is a mapping pattern without a quantifier
\* (fixed) or with one (open).
IsFixedMapping == schema.k = "object" /\ schema.any = <<>> /\ schema.etc = <<>>
IsOpenMapping == schema.k = "object" /\ schema.any = <<>> /\ schema.etc # <<>>

\* The pattern's keys by kind, an optional key under its name without the
\* trailing '?'.
RequiredEntries ==
    {i \in 1..Len(schema.entries) : ~EndsWithQuestionMark(schema.entries[i][1])}
OptionalEntries ==
    {i \in 1..Len(schema.entries) : EndsWithQuestionMark(schema.entries[i][1])}
RequiredNames == {schema.entries[i][1] : i \in RequiredEntries}
OptionalNames == {DropLast(schema.entries[i][1]) : i \in OptionalEntries}

\* The value the candidate holds under an own key matches a sub-pattern.
FieldMatches(key, pattern) ==
    Run(validatorImpl(pattern), Get(last.value, key), <<>>,
        [log |-> <<>>, trace |-> <<>>, call |-> calls, cells |-> <<>>, count |-> 0]).res = "true"

\* Every required key is present and matches, and every optional key that
\* is present matches.
KnownKeysMatch ==
    /\ \A i \in RequiredEntries :
           /\ schema.entries[i][1] \in OwnKeys(last.value)
           /\ FieldMatches(schema.entries[i][1], schema.entries[i][2])
    /\ \A i \in OptionalEntries :
           DropLast(schema.entries[i][1]) \in OwnKeys(last.value) =>
               FieldMatches(DropLast(schema.entries[i][1]), schema.entries[i][2])

\* The candidate's keys that are neither required nor optional.
Leftovers == OwnKeys(last.value) \ (RequiredNames \cup OptionalNames)

\* C9: a fixed mapping pattern matches a candidate iff the candidate is a
\* plain mapping, every required key is present and matches, every
\* optional key that is present matches (under its name without the '?'),
\* and the candidate has no other key.
C9_FixedMappingIff ==
    Called /\ IsFixedMapping =>
        (last.res = "true" <=>
            IF isObject(last.value)
            THEN KnownKeysMatch /\ Leftovers = {}
            ELSE FALSE)

\* The bound on leftovers the pattern states: that of its quantifier, min
\* 0 and max unbounded when omitted, and {0,0} without a quantifier.
QuantifierMin ==
    IF schema.etc = <<>> \/ schema.etc[1].min = Undefined THEN 0
    ELSE schema.etc[1].min
QuantifierMax ==
    IF schema.etc = <<>> THEN 0
    ELSE IF schema.etc[1].max = Undefined THEN Infinity
    ELSE schema.etc[1].max

\* C10: for a mapping pattern, a candidate whose required and optional
\* keys all match is accepted iff the number of its leftover entries is
\* within min..max of the pattern's quantifier (min 0 and max unbounded
\* when omitted; {0,0} for a pattern without a quantifier).
C10_LeftoversWithinBound ==
    Called /\ (IsOpenMapping \/ IsFixedMapping) /\ isObject(last.value) =>
        (KnownKeysMatch =>
            (last.res = "true" <=>
                /\ QuantifierMin <= Cardinality(Leftovers)
                /\ Cardinality(Leftovers) <= QuantifierMax))

\* A sub-pattern, compiled and invoked on its own on a value, returns true.
Matches(pattern, value) ==
    Run(validatorImpl(pattern), value, <<>>,
        [log |-> <<>>, trace |-> <<>>, call |-> calls, cells |-> <<>>, count |-> 0]).res = "true"

\* The schema handed to compile is a fixed sequence pattern: an array
\* literal without a quantifier marker among its elements.
IsFixedSequence ==
    /\ schema.k = "array"
    /\ \A i \in 1..Len(schema.elements) : schema.elements[i].k # "etc"

\* C11: a fixed sequence pattern of N sub-patterns matches a candidate
\* iff the candidate is a sequence of exactly N elements whose i-th
\* element matches the i-th sub-pattern; a sequence of another length
\* and a non-sequence fail.
C11_FixedSequenceIff ==
    Called /\ IsFixedSequence =>
        IF IsArrayValue(last.value) /\ Len(last.value.v) = Len(schema.elements)
        THEN last.res = "true" <=>
                \A i \in 1..Len(schema.elements) :
                    Matches(schema.elements[i], last.value.v[i])
        ELSE last.res = "false"

\* The schema handed to compile is a variadic sequence pattern: an array
\* literal that ends with a quantifier marker after a repeatable pattern,
\* with no marker before the end.
IsVariadicSequence ==
    /\ schema.k = "array"
    /\ Len(schema.elements) >= 2
    /\ schema.elements[Len(schema.elements)].k = "etc"
    /\ \A i \in 1..(Len(schema.elements) - 1) : schema.elements[i].k # "etc"

\* Its k fixed sub-patterns, its repeatable pattern and its quantifier:
\* min 0 and max unbounded where the marker leaves them out.
FixedCount == Len(schema.elements) - 2
Repeatable == schema.elements[Len(schema.elements) - 1]
SequenceMin ==
    IF schema.elements[Len(schema.elements)].min = Undefined THEN 0
    ELSE schema.elements[Len(schema.elements)].min
SequenceMax ==
    IF schema.elements[Len(schema.elements)].max = Undefined THEN Infinity
    ELSE schema.elements[Len(schema.elements)].max

\* The candidate is a sequence whose first k elements match the fixed
\* sub-patterns, with min..max further elements that all match R.
VariadicSequenceAccepts ==
    /\ IsArrayValue(last.value)
    /\ Len(last.value.v) >= FixedCount
    /\ \A i \in 1..FixedCount : Matches(schema.elements[i], last.value.v[i])
    /\ SequenceMin <= Len(last.value.v) - FixedCount
    /\ Len(last.value.v) - FixedCount <= SequenceMax
    /\ \A i \in (FixedCount + 1)..Len(last.value.v) :
           Matches(Repeatable, last.value.v[i])

\* C12 for a compiled pattern: it matches iff the candidate is a
\* sequence, its first k elements match the fixed sub-patterns, the number
\* of remaining elements is within min..max and each of them matches R.
C12_MatchesIff ==
    Called /\ IsVariadicSequence =>
        (last.res = "true" <=> VariadicSequenceAccepts)

\* C12: a variadic sequence pattern with k fixed sub-patterns, repeatable
\* pattern R and quantifier {min,max} (0 and unbounded by default) has a
\* matcher whenever its sub-patterns are patterns, and the matcher matches
\* a candidate iff the candidate is a sequence whose first k elements
\* match the fixed sub-patterns and whose remaining elements number within
\* min..max and all match R.
C12_VariadicSequenceIff ==
    /\ C12_MatchesIff
    /\ pc = "failed" /\ IsVariadicSequence =>
           \E i \in 1..(Len(schema.elements) - 1) :
               Thrown(validatorImpl(schema.elements[i]))

\* C13: every array matched by [pattern1, ..., pattern_n, ...etc], the
\* marker written without arguments, has one or more elements: its first
\* n elements match pattern1..pattern_n, and any further elements match
\* pattern_n.  The empty array is not matched by [P, ...etc].
C13_OneOrMoreElements ==
    /\ Called
    /\ IsVariadicSequence
    /\ ~schema.elements[Len(schema.elements)].called
    /\ last.res = "true"
    => /\ IsArrayValue(last.value)
       /\ Len(last.value.v) >= Len(schema.elements) - 1
       /\ \A i \in 1..Len(last.value.v) :
              IF i < Len(schema.elements)
              THEN Matches(schema.elements[i], last.value.v[i])
              ELSE Matches(Repeatable, last.value.v[i])

\* The schema handed to compile is a wildcard mapping pattern: [Any] is
\* its only key.
IsWildcardMapping ==
    schema.k = "object" /\ schema.any # <<>> /\ schema.entries = <<>>

\* The number of entries the pattern allows: exactly 1 without a
\* quantifier, min..max with one (min 0 and max unbounded by default).
WildcardMin ==
    IF schema.etc = <<>> THEN 1
    ELSE IF schema.etc[1].min = Undefined THEN 0 ELSE schema.etc[1].min
WildcardMax ==
    IF schema.etc = <<>> THEN 1
    ELSE IF schema.etc[1].max = Undefined THEN Infinity ELSE schema.etc[1].max

\* C14: a wildcard mapping pattern with sub-pattern P matches a plain
\* mapping iff its entry count is exactly 1 without a quantifier, or
\* within min..max with one, and every value, whatever its key, matches P.
C14_WildcardMappingIff ==
    Called /\ IsWildcardMapping /\ isObject(last.value) =>
        (last.res = "true" <=>
            /\ WildcardMin <= Len(last.value.v)
            /\ Len(last.value.v) <= WildcardMax
            /\ \A i \in 1..Len(last.value.v) :
                   Matches(schema.any[1], last.value.v[i][2]))

\* C15: compiling a mapping pattern that holds the [Any] key together with
\* at least one explicit key fails; compile never returns a matcher for it.
C15_WildcardWithExplicitKeyRejected ==
    pc = "ready" =>
        ~(schema.k = "object" /\ schema.any # <<>> /\ schema.entries # <<>>)

\* C16: every sequence pattern that compiles has no quantifier marker at
\* a position other than the last, neither among its fixed sub-patterns
\* nor as its repeatable sub-pattern.
C16_MarkerOnlyAtEnd ==
    pc = "ready" /\ schema.k = "array" =>
        \A i \in 1..(Len(schema.elements) - 1) : schema.elements[i].k # "etc"

\* The names validatorImpl takes for type tags.
Tags == {"Number", "Boolean", "Object", "Array", "String"}

\* The validator of a tag, invoked on a value, returns true.
TagMatches(name, value) ==
    typeValidatorCall(typeValidator(TypeTag(name)), value, <<>>,
                      [log |-> <<>>, trace |-> <<>>, call |-> calls,
                       cells |-> <<>>, count |-> 0]).res = "true"

\* The tag of the runtime category of a value other than null.
OwnTag(value) ==
    CASE value.t = "string" -> "String"
      [] value.t = "number" -> "Number"
      [] value.t = "boolean" -> "Boolean"
      [] value.t = "array" -> "Array"
      [] value.t = "object" -> "Object"

\* C17: for every candidate at most one of the tags String, Number,
\* Boolean, Object, Array matches; a string, number, boolean, array or
\* plain mapping matches exactly its own tag, and null matches none.
C17_TagsPartitionValues ==
    Called =>
        /\ Cardinality({n \in Tags : TagMatches(n, last.value)}) <= 1
        /\ \A n \in Tags :
               TagMatches(n, last.value) <=>
                   last.value.t # "null" /\ n = OwnTag(last.value)
        /\ impl.m = "type" /\ schema.k = "type" =>
               (last.res = "true" <=>
                   last.value.t # "null" /\ schema.name = OwnTag(last.value))

\* C17 witness: the tag Object was tried on an array and did not match.
C17_Witness ==
    /\ Called
    /\ schema = TObject
    /\ last.value.t = "array"
    /\ last.res = "false"

\* C18: the pattern Any, a union of no alternatives, matches every
\* candidate, null included, and appends nothing to the log, at the root
\* of a pattern and inside one.
C18_AnyMatchesEverything ==
    Called =>
        /\ schema = Any => last.res = "true" /\ last.pushed = 0
        /\ \A k \in 1..Len(last.trace) :
               last.trace[k].kind = "true" =>
                   /\ last.trace[k].res = "true"
                   /\ \A e \in 1..Len(errors) :
                          errors[e].path # last.trace[k].path

\* C18 witness: Any was handed null and matched.
C18_Witness ==
    /\ Called
    /\ schema = Any
    /\ last.value = Null
    /\ last.res = "true"

\* C18 witness inside a pattern: the call failed after a nested Any had
\* matched, and the log holds the diagnostics of the failure.
C18_NestedWitness ==
    /\ Called
    /\ last.res = "false"
    /\ errors # <<>>
    /\ \E k \in 1..Len(last.trace) :
          last.trace[k].kind = "true" /\ Len(last.trace[k].path) = 1

\* C19: within one top-level compile over an acyclic dependency graph
\* each unit's file is read and compiled at most once, also when the unit
\* is reached several times, and every dependent that names the unit is
\* handed the same compiled validator.
C19_EachUnitCompiledOnce ==
    (\A i \in 1..Len(loads) : ~CycleReachable(loads[i])) =>
        /\ \A i, j \in 1..Len(loads) : loads[i] = loads[j] => i = j
        /\ \A i, j \in 1..Len(handed) :
               handed[i].unit = handed[j].unit => handed[i].id = handed[j].id

\* A number, or a '+' object whose array holds only such trees.
RECURSIVE IsExpression(_)
IsExpression(value) ==
    \/ value.t = "number"
    \/ /\ isObject(value)
       /\ OwnKeys(value) = {KeyPlus}
       /\ IsArrayValue(Get(value, KeyPlus))
       /\ \A i \in 1..Len(Get(value, KeyPlus).v) :
              IsExpression(Get(value, KeyPlus).v[i])

\* C20: the self-referential pattern
\* recursive(S => or(Number, {'+': [S, ...etc]})) compiles, and its
\* validator accepts 3, {'+': []} and {'+': [1, {'+': [2, 3]}]} and
\* rejects {'+': "not array"}: it accepts exactly the trees of '+'
\* objects over numbers among the candidates it returns for.  Every call
\* of the placeholder, compiled before it was bound, is answered by the
\* matcher of the whole pattern, called on the same value.
C20_SelfReferenceMatches ==
    /\ schema = Expression => pc # "failed"
    /\ Called /\ schema = Expression =>
          /\ last.value \in TreeValues => last.res # "throw"
          /\ last.res = "true" => IsExpression(last.value)
          /\ last.res = "false" => ~IsExpression(last.value)
          /\ \A k \in 1..Len(last.trace) :
                 last.trace[k].kind = "placeholder" =>
                     \E j \in 1..Len(last.trace) :
                         /\ last.trace[j].path = Append(last.trace[k].path, 0)
                         /\ last.trace[j].kind = "or"
                         /\ last.trace[j].res = last.trace[k].res

\* C20 witness: {'+': [1, {'+': [2, 3]}]} was accepted, the placeholder
\* having been called on the nested '+' object and on its elements.
C20_Witness ==
    /\ Called
    /\ schema = Expression
    /\ last.value = Plus(Arr(<<Num(1), Plus(Arr(<<Num(2), Num(3)>>))>>))
    /\ last.res = "true"
    /\ \E k \in 1..Len(last.trace) :
          /\ last.trace[k].kind = "placeholder"
          /\ Len(last.trace[k].path) > 6

\* The schema was made by recursive.
IsRecursiveSchema == schema.k \in {"recursive", "group"}

\* The names recursive was given definitions for.
Defined == IF schema.k = "group" THEN Names(schema.defs) ELSE {1}

\* The placeholders a recursive schema holds.
Placeholders ==
    IF schema.k = "group"
    THEN UNION {Minted(schema.defs[i][2]) : i \in 1..Len(schema.defs)}
    ELSE {1}

C21_DanglingWitness ==
    /\ pc = "failed"
    /\ schema = Group(Dangling, "yang")

\* C22: a wildcard mapping matcher, with or without a quantifier, returns
\* false for every candidate that is not a plain mapping: null, a
\* boolean, a number, a string or an array.
C22_WildcardRejectsNonMappings ==
    Called /\ pc = "ready" /\ impl.m = "wildcard" /\ ~isObject(last.value) =>
        last.res = "false"

\* The root matcher is a mapping matcher and the candidate a mapping.
MappingCall ==
    Called /\ pc = "ready" /\ impl.m = "object" /\ isObject(last.value)

\* The missing-key diagnostics the root mapping matcher left in the log.
MissingEntries ==
    {e \in 1..Len(errors) :
        errors[e].code = "Missing required field" /\ errors[e].path = <<>>}

\* The required keys of the root mapping matcher the candidate lacks.
MissingRequired ==
    {i \in 1..Len(impl.required) : ~In(impl.required[i][1], last.value)}

LeftoverKeys ==
    OwnKeys(last.value) \ (TableKeys(impl.required) \cup TableKeys(impl.optional))
LeftoversOutOfBound ==
    \/ Cardinality(LeftoverKeys) < impl.min
    \/ Cardinality(LeftoverKeys) > impl.max

\* The root mapping matcher did no optional or leftover accounting: no
\* optional-key sub-matcher was invoked and the log holds no
\* leftover-count diagnostic of the root.
NoOptionalOrLeftoverAccounting ==
    /\ \A k \in 1..Len(last.trace) :
           ~(Len(last.trace[k].path) = 1
             /\ last.trace[k].path[1] > Len(impl.required))
    /\ \A e \in 1..Len(errors) :
           ~(errors[e].path = <<>> /\ errors[e].code = "Encountered extra fields")

\* C24 as claimed: for a candidate that both lacks a required key and has
\* a leftover count outside the quantifier bound, the mapping matcher
\* fails with the missing-key diagnostic, appends no leftover-count
\* diagnostic and invokes no optional-key sub-matcher.
C24_MissingKeyBeforeLeftovers ==
    MappingCall /\ MissingRequired # {} /\ LeftoversOutOfBound =>
        /\ last.res = "false"
        /\ MissingEntries # {}
        /\ NoOptionalOrLeftoverAccounting

\* C24 amended: for a candidate that lacks a required key the mapping
\* matcher fails on a required key, whatever the leftovers and the
\* optional keys are: it does no optional or leftover accounting, and the
\* last diagnostic is that of the first failing required key, either the
\* list of required keys after the missing-key diagnostic, or the context
\* line of a required key that comes before every missing one and whose
\* value did not match.
C24_RequiredKeysBeforeLeftovers ==
    MappingCall /\ MissingRequired # {} =>
        /\ last.res = "false"
        /\ NoOptionalOrLeftoverAccounting
        /\ errors # <<>>
        /\ errors[Len(errors)].path = <<>>
        /\ \/ /\ errors[Len(errors)].code = "The following fields are required"
              /\ MissingEntries = {Len(errors) - 1}
           \/ /\ errors[Len(errors)].code = "...occurred at required field"
              /\ MissingEntries = {}
              /\ \E j \in 1..Len(impl.required) :
                    /\ errors[Len(errors)].with[1] = impl.required[j][1]
                    /\ \A i \in MissingRequired : j < i

\* C24 witness: {a: Number, "b?": String} was handed {b: "a", c: 1},
\* which lacks a, holds the optional key b and has one leftover where
\* none is allowed; the call failed with the missing-key diagnostic.
C24_Witness ==
    /\ MappingCall
    /\ schema = ObjAOptB
    /\ last.value = Obj(<<<<KeyB, StrA>>, <<KeyC, Num(1)>>>>)
    /\ MissingRequired = {1}
    /\ LeftoversOutOfBound
    /\ last.res = "false"
    /\ MissingEntries = {1}

\* The unions that failed in the latest call, as indexes into the trace.
FailedUnions ==
    {k \in 1..Len(last.trace) :
        last.trace[k].kind = "or" /\ last.trace[k].res = "false"}

\* The diagnostics appended while the call recorded at trace index k ran,
\* as indexes into the log.
AppendedDuring(k) == (last.trace[k].entered + 1)..last.trace[k].logged

\* The alternative of the union at path p that appended the diagnostic e.
AlternativeOf(p, e) == errors[e].path[Len(p) + 1]

\* C25: when every alternative of a non-empty union fails, the union
\* appends exactly one summary diagnostic, as the last entry; the
\* diagnostics the alternatives appended during this attempt all remain
\* in the log, in alternative order, directly before the summary; every
\* failed alternative left at least one.
C25_SummaryAfterAlternatives ==
    Called /\ last.res = "false" =>
        \A k \in FailedUnions :
            /\ last.trace[k].logged <= Len(errors)
            /\ last.trace[k].logged > last.trace[k].entered
            /\ errors[last.trace[k].logged].path = last.trace[k].path
            /\ errors[last.trace[k].logged].code =
                   "did not match any of the or patterns"
            /\ last.trace[k].path = <<>> => last.trace[k].logged = Len(errors)
            /\ \A e \in AppendedDuring(k) \ {last.trace[k].logged} :
                  /\ IsPrefix(last.trace[k].path, errors[e].path)
                  /\ errors[e].path # last.trace[k].path
            /\ \A e, f \in AppendedDuring(k) \ {last.trace[k].logged} :
                  e < f => AlternativeOf(last.trace[k].path, e)
                               <= AlternativeOf(last.trace[k].path, f)
            /\ \A j \in 1..(k - 1) :
                  /\ Len(last.trace[j].path) = Len(last.trace[k].path) + 1
                  /\ IsPrefix(last.trace[k].path, last.trace[j].path)
                  /\ \A i \in (j + 1)..(k - 1) :
                         last.trace[i].path # last.trace[k].path
                  => /\ last.trace[j].res = "false"
                     /\ last.trace[j].entered >= last.trace[k].entered
                     /\ \E e \in AppendedDuring(j) :
                           /\ e < last.trace[k].logged
                           /\ IsPrefix(last.trace[j].path, errors[e].path)

\* C25 witness: a union of three alternatives, the whole pattern, failed
\* on a candidate; the log holds one diagnostic of each alternative, in
\* order, and then the summary.
C25_Witness ==
    /\ Called
    /\ schema = Or(<<TString, TNumber, TBoolean>>)
    /\ last.res = "false"
    /\ Len(errors) = 4
    /\ errors[1].path = <<1>>
    /\ errors[2].path = <<2>>
    /\ errors[3].path = <<3>>
    /\ errors[4].path = <<>>
    /\ errors[4].code = "did not match any of the or patterns"

\* C25 witness inside a pattern: a union nested in a mapping pattern
\* failed after an earlier diagnostic was in the log.
C25_NestedWitness ==
    /\ Called
    /\ last.res = "false"
    /\ \E k \in FailedUnions :
          /\ last.trace[k].path # <<>>
          /\ last.trace[k].logged < Len(errors)

\* The path p leads to a validator strictly above the one at q.
IsAbove(p, q) == IsPrefix(p, q) /\ p # q

\* The matchers that push a diagnostic of their own whenever they fail
\* (a variadic sequence matcher pushes none when its fixed part failed).
Reporting == {"fixedArray", "object", "wildcard", "or"}

\* C26 as claimed: after a failing call the log is ordered root-to-leaf:
\* the diagnostic of an enclosing pattern comes before the diagnostics of
\* the sub-patterns nested in it.
C26_RootToLeaf ==
    Called /\ last.res = "false" =>
        \A e, f \in 1..Len(errors) :
            IsAbove(errors[e].path, errors[f].path) => e < f

\* C26 amended: after a failing call the log is ordered leaf-to-root:
\* the diagnostic of an enclosing pattern comes after the diagnostics of
\* the sub-patterns nested in it, and the last diagnostic appended while
\* a fixed sequence, mapping or union matcher failed is that matcher's
\* own.
C26_LeafToRoot ==
    Called /\ last.res = "false" =>
        /\ \A e, f \in 1..Len(errors) :
               IsAbove(errors[e].path, errors[f].path) => f < e
        /\ \A k \in 1..Len(last.trace) :
               last.trace[k].res = "false" /\ last.trace[k].kind \in Reporting =>
                   /\ last.trace[k].logged > last.trace[k].entered
                   /\ errors[last.trace[k].logged].path = last.trace[k].path

\* C26 witness: a sequence pattern failed on an element; the log holds
\* the diagnostic of the element and then the line naming the sequence
\* pattern.
C26_Witness ==
    /\ Called
    /\ pc = "ready"
    /\ impl.m = "fixedArray"
    /\ last.res = "false"
    /\ Len(errors) >= 2
    /\ Len(errors[1].path) >= 1
    /\ errors[Len(errors)].path = <<>>
    /\ errors[Len(errors)].code = "...occurred in array pattern"

\* A top-level compile has just begun with paths none of which leads to a
\* unit from which a cycle among units can be reached.
BeginsWithoutCycle ==
    /\ entry # "none"
    /\ result = "none"
    /\ loads = <<>>
    /\ \A i \in 1..Len(roots) :
           Exists(roots[i]) => ~CycleReachable(FileAt(roots[i]))

\* A registry entry is written only for a unit whose definition has
\* finished compiling: no call under way is for a path in the registry.
StoredOnlyWhenFinished ==
    \A i \in 1..Len(stack) : stack[i].schemaPath \notin DOMAIN registry

C27_ReturnedWitness ==
    /\ result = "returned"
    /\ loads # <<>>
    /\ loads[1] = "a"

RootLog ==
    Run(impl, last.value, <<>>,
        [log |-> <<>>, trace |-> <<>>, call |-> calls, cells |-> <<>>,
         count |-> 0]).st.log

\* C29: during one top-level validate call the log changes only by appends
\* at its end: when the root validator returns, the array holds every
\* diagnostic pushed since the initial clear, in push order, and no
\* validator invocation (a dependency's validator embedded as a
\* sub-pattern included) leaves the array shorter than it found it; only
\* the root wrapper clears it, on entry and after a match.
C29_NestedValidatorsOnlyAppend ==
    last.op \in {"validate", "enforce"} =>
        /\ last.pushed = last.count
        /\ Len(RootLog) = last.count
        /\ \A i \in 1..Len(RootLog) :
               RootLog[i].nr = i /\ RootLog[i].stamp = calls
        /\ \A k \in 1..Len(last.trace) :
               last.trace[k].entered <= last.trace[k].logged
        /\ last.res = "true" => errors = <<>>
        /\ last.res # "true" => errors = RootLog

\* C29 witness: a union whose first alternative is a dependency's
\* validator failed on a string: the dependency, the other alternative and
\* the union each appended one diagnostic, and all three are kept.
C29_Witness ==
    /\ last.op = "validate"
    /\ schema = Or(<<Dependency, TNumber>>)
    /\ last.value = StrA
    /\ last.res = "false"
    /\ last.count = 3
    /\ Len(errors) = 3

\* C29 witness: the root validator matched after a failed alternative had
\* appended a diagnostic, and the wrapper emptied the array.
C29_ClearedWitness ==
    /\ last.op = "validate"
    /\ last.res = "true"
    /\ last.count > 0
    /\ last.pushed > 0
    /\ errors = <<>>

\* Contents an errors array may hold when a call starts: nothing, or
\* diagnostics of earlier calls.
PriorLogs ==
    {<<>>,
     <<[code |-> "expected literal", path |-> <<>>, stamp |-> 0, nr |-> 1,
        with |-> <<StrA, Num(1)>>]>>,
     <<[code |-> "expected value of type", path |-> <<1>>, stamp |-> 0,
        nr |-> 1, with |-> <<"Number", "string", StrA>>],
       [code |-> "did not match any of the \"or\" patterns", path |-> <<>>,
        stamp |-> 0, nr |-> 2, with |-> <<>>]>>}

====
